---- MODULE Spec2Model ----
(***************************************************************************)
(* Distort Lab: the render scheduler and the controls (main.js), the       *)
(* source/commit life-cycle (canvas.js), the CPU resampling engine         *)
(* (engine.js, utils.js) and the filters' map functions.                   *)
(*                                                                         *)
(* The specifications share the variables:                                 *)
(*   Spec        the application: load, commit, filter change, the         *)
(*               requestAnimationFrame queue and render();                 *)
(*   SpecFair    Spec with the browser's callbacks eventually run;         *)
(*   SpecMsg     the Photopea round trip: LAB_IMAGE messages, their        *)
(*               decodes and acknowledgements (SpecMsgFair: with the       *)
(*               browser's events eventually delivered);                   *)
(*   SpecSource  loads, commits and plugin images together;                *)
(*   SpecUI      the application's controls: parameters, defaults,         *)
(*               presets, zoom and fit, with load and render();            *)
(*   SpecEngine  the engine's pure functions (resolveEdge, edgeResolve,    *)
(*               sampleBilinear, cpuWarp, the filters' map) applied to     *)
(*               inputs drawn from bounded sets.                           *)
(*                                                                         *)
(* Numbers.  Coordinates are JavaScript doubles.  A finite coordinate is   *)
(* modelled in fixed point as a numerator over Den; NaN and the two        *)
(* infinities are separate kinds.  Colour channels are the integers        *)
(* 0..255 of a Uint8ClampedArray.                                          *)
(***************************************************************************)
EXTENDS Integers, Sequences, FiniteSets, TLC

(* ------------------------------ bounds -------------------------------- *)
\* sub-pixel resolution of a modelled coordinate (1/Den of a pixel)
Den == 2
\* source buffers are W x H with 1 <= W,H <= MaxDim
MaxDim == 3
\* sampled coordinates range over -MaxCoord .. MaxCoord pixels
MaxCoord == 6
\* requestAnimationFrame handles handed out in one run
MaxRaf == 5
\* images created (loaded or committed) in one run
MaxImages == 3
\* control handlers (parameter, preset, zoom, fit, load) in one run
MaxCtl == 3
\* the largest seq a LAB_IMAGE message carries
MaxSeq == 2
\* LAB_IMAGE messages accepted in one run
MaxMsgs == 3

(* ------------------------- JavaScript arithmetic ---------------------- *)
Abs(i) == IF i < 0 THEN -i ELSE i

\* JavaScript %: the remainder takes the sign of the dividend (n > 0)
jsRem(a, n) == IF a >= 0 THEN a % n ELSE -((-a) % n)

\* Math.max / Math.min on integers
Max2(a, b) == IF a >= b THEN a ELSE b
Min2(a, b) == IF a <= b THEN a ELSE b

\* Store of the real number num/den (den > 0) into a Uint8ClampedArray:
\* clamp to [0,255], round to nearest, ties to even.
ToUint8Clamped(num, den) ==
  IF num <= 0 THEN 0
  ELSE IF num >= 255 * den THEN 255
  ELSE LET q == num \div den
           r == num % den
       IN IF 2 * r < den THEN q
          ELSE IF 2 * r > den THEN q + 1
          ELSE IF q % 2 = 0 THEN q ELSE q + 1

(* ------------------------------ numbers ------------------------------- *)
Fin(n) == [k |-> "fin", n |-> n]
NaN    == [k |-> "nan", n |-> 0]
PosInf == [k |-> "inf", n |-> 1]
NegInf == [k |-> "inf", n |-> -1]
IsFinite(c) == c.k = "fin"
\* the integer pixel coordinate x as a number
Px(x) == Fin(x * Den)

\* NaN where the model computes with integers: the weight u - floor(u) of a
\* non-finite u, the remainder v % 0
NaNInt == -1
\* a field the map result does not carry (m.a == null)
NoField == -1

(* --------------------------- utils.js --------------------------------- *)
clamp(v, lo, hi) == Max2(lo, Min2(hi, v))

wrap(v, n) ==
  LET m == jsRem(v, n) IN IF m < 0 THEN m + n ELSE m

mirror(v, n) ==
  IF n = 0 THEN NaNInt   \* v % 0 is NaN, NaN <= n is false, 2n - NaN is NaN
  ELSE LET t == jsRem(Abs(jsRem(v, 2 * n) + 2 * n), 2 * n)
       IN IF t <= n THEN t ELSE 2 * n - t

edgeResolve(u, v, W, H, mode) ==
  IF mode = "transparent" THEN
       IF u < 0 \/ v < 0 \/ u > W - 1 \/ v > H - 1
         THEN [out |-> TRUE, ux |-> 0, vy |-> 0]
         ELSE [out |-> FALSE, ux |-> u, vy |-> v]
  ELSE IF mode = "clamp" THEN
       [out |-> FALSE, ux |-> clamp(u, 0, W - 1), vy |-> clamp(v, 0, H - 1)]
  ELSE IF mode = "wrap" THEN
       [out |-> FALSE, ux |-> wrap(u, W), vy |-> wrap(v, H)]
  ELSE IF mode = "mirror" THEN
       [out |-> FALSE, ux |-> mirror(u, W - 1), vy |-> mirror(v, H - 1)]
  ELSE [out |-> FALSE, ux |-> clamp(u, 0, W - 1), vy |-> clamp(v, 0, H - 1)]

(* --------------------------- engine.js -------------------------------- *)
mod(i, n) ==
  LET m == jsRem(i, n) IN IF m < 0 THEN m + n ELSE m

mirrorIndex_NoAbs(i, n) ==
  IF n <= 1 THEN 0
  ELSE LET p == n - 1
           m == jsRem(i, 2 * p)
       IN IF m > p THEN 2 * p - m ELSE m

mirrorIndex(i, n) ==
  IF n <= 1 THEN 0
  ELSE LET p == n - 1
           m == jsRem(Abs(i), 2 * p)
       IN IF m > p THEN 2 * p - m ELSE m

resolveEdge(W, H, x, y, edge) ==
  IF x >= 0 /\ x < W /\ y >= 0 /\ y < H THEN [x |-> x, y |-> y, t |-> FALSE]
  ELSE IF edge = "clamp" THEN
       [x |-> IF x < 0 THEN 0 ELSE IF x >= W THEN W - 1 ELSE x,
        y |-> IF y < 0 THEN 0 ELSE IF y >= H THEN H - 1 ELSE y,
        t |-> FALSE]
  ELSE IF edge = "wrap" THEN
       [x |-> mod(x, W), y |-> mod(y, H), t |-> FALSE]
  ELSE IF edge = "mirror" THEN
       [x |-> mirrorIndex(x, W), y |-> mirrorIndex(y, H), t |-> FALSE]
  ELSE \* case "transparent": default:
       [x |-> -1, y |-> -1, t |-> TRUE]

\* fetch: last-resort clamp, then the texel at (x,y).  The buffer is a
\* function from the texel index (i >> 2) to <<r,g,b,a>>.  The value is
\* what fetch writes into the shared scratch array _px.
fetch(src, W, H, x, y) ==
  LET xx == IF x < 0 THEN 0 ELSE IF x >= W THEN W - 1 ELSE x
      yy == IF y < 0 THEN 0 ELSE IF y >= H THEN H - 1 ELSE y
  IN src[yy * W + xx]

\* one channel of lerp4, stored into the Uint8ClampedArray _lr
lerpCh(a, b, t) ==
  IF t = NaNInt THEN 0          \* NaN stored in a Uint8ClampedArray is 0
  ELSE ToUint8Clamped(a * Den + (b - a) * t, Den)

lerp4(a, b, t) ==
  << lerpCh(a[1], b[1], t), lerpCh(a[2], b[2], t),
     lerpCh(a[3], b[3], t), lerpCh(a[4], b[4], t) >>

_ZERO == <<0, 0, 0, 0>>

\* Math.floor(u) and u - Math.floor(u) of a finite coordinate
FloorOf(c) == c.n \div Den
FracOf(c)  == c.n % Den

\* The four lattice points after the edge resolution of lines 135-138:
\* each call sees the coordinates already overwritten by the previous ones.
Lattice(W, H, u, v, edge) ==
  LET x0r  == FloorOf(u)
      y0r  == FloorOf(v)
      ok00 == resolveEdge(W, H, x0r, y0r, edge)
      x0   == ok00.x
      y0   == ok00.y
      ok10 == resolveEdge(W, H, x0r + 1, y0, edge)
      x1   == ok10.x
      ok01 == resolveEdge(W, H, x0, y0r + 1, edge)
      y1   == ok01.y
      ok11 == resolveEdge(W, H, x1, y1, edge)
  IN [x0 |-> x0, y0 |-> y0, x1 |-> x1, y1 |-> y1,
      t |-> ok00.t \/ ok10.t \/ ok01.t \/ ok11.t]

\* line 140: the early return of _ZERO.  For a non-finite coordinate every
\* range test of resolveEdge is false, so the transparent case flags it.
ForcedTransparent(W, H, u, v, edge) ==
  /\ edge = "transparent"
  /\ IF IsFinite(u) /\ IsFinite(v) THEN Lattice(W, H, u, v, edge).t ELSE TRUE

\* The blend of lines 142-149.  fetch returns the one scratch array _px and
\* lerp4 the one scratch array _lr, so p00, p10, p01 and p11 are the same
\* object, holding what the LAST fetch (x1,y1) wrote, and r0 and r1 are the
\* same object, holding what the second lerp4 wrote.
Blend(src, W, H, u, v, edge) ==
  LET L   == Lattice(W, H, u, v, edge)
      tx  == IF IsFinite(u) THEN FracOf(u) ELSE NaNInt
      ty  == IF IsFinite(v) THEN FracOf(v) ELSE NaNInt
      \* with a non-finite coordinate the weight is NaN and every channel is
      \* stored as 0 whatever texel was fetched
      px  == IF IsFinite(u) /\ IsFinite(v)
               THEN fetch(src, W, H, L.x1, L.y1)
               ELSE src[0]
      p00 == px
      p10 == px
      p01 == px
      p11 == px
      lr1 == lerp4(p00, p10, tx)
      lr2 == lerp4(p01, p11, tx)
      r0  == lr2
      r1  == lr2
  IN lerp4(r0, r1, ty)

sampleBilinear(src, W, H, u, v, edge) ==
  IF ForcedTransparent(W, H, u, v, edge) THEN _ZERO
  ELSE Blend(src, W, H, u, v, edge)

(* ----------------------- map results and filters ---------------------- *)
\* What one invocation of the wrapped map function does: it throws, returns
\* nothing, or returns {u, v, a?, aOverride?}.
MapVal(u, v, a, ao) == [kind |-> "val", u |-> u, v |-> v, a |-> a, ao |-> ao]
MapThrow == [kind |-> "throw", u |-> NaN, v |-> NaN, a |-> NoField, ao |-> NoField]
MapNull  == [kind |-> "null",  u |-> NaN, v |-> NaN, a |-> NoField, ao |-> NoField]

identityMap(x, y) == MapVal(Px(x), Px(y), Den, NoField)

_tmpReuse_Origin(x, y) == MapVal(Px(0), Px(0), Den, NoField)

_tmpReuse(x, y) == MapVal(Px(x), Px(y), Den, NoField)

\* the singularity guard of the filters: far outside + transparent
PoleSentinel(W, H) == MapVal(Px(W * 10), Px(H * 10), NoField, 0)

\* the behaviours a map invocation can show at one pixel
Behaviours == {"plain", "throw", "null", "nan", "inf", "pole", "a0", "ahalf"}

\* A filter is a displacement (dx,dy), in 1/Den pixels, applied to every
\* pixel but one, (sx,sy), where the map shows the behaviour `special'.
\* has = FALSE is a descriptor without map/warp.
FilterMap(f, x, y, W, H) ==
  LET plain == MapVal(Fin(x * Den + f.dx), Fin(y * Den + f.dy), NoField, NoField)
  IN IF x # f.sx \/ y # f.sy THEN plain
     ELSE CASE f.special = "throw" -> MapThrow
            [] f.special = "null"  -> MapNull
            [] f.special = "nan"   -> MapVal(NaN, Px(y), NoField, NoField)
            [] f.special = "inf"   -> MapVal(Px(x), PosInf, NoField, NoField)
            [] f.special = "pole"  -> PoleSentinel(W, H)
            [] f.special = "a0"    -> MapVal(Px(x), Px(y), 0, NoField)
            [] f.special = "ahalf" -> MapVal(Px(x), Px(y), 1, NoField)
            [] OTHER               -> plain

(* ------------------------ the filters' map ---------------------------- *)
\* Geometry of the radial filters is exact in 1/GeoDen of a pixel: a
\* percentage of a dimension, and half of it, are integers there.
GeoDen == 200

\* What map returns: the literal { u: x, v: y } ("xy"), the point
\* { u: cx + r' cos(theta'), v: cy + r' sin(theta') } ("polar"), or nothing
\* because it threw.  moved: the returned point differs from (x, y), decided
\* in real arithmetic (the rounding of doubles is not modelled).
RetXY == [kind |-> "val", ret |-> "xy", moved |-> FALSE]
RetPolar(moved) == [kind |-> "val", ret |-> "polar", moved |-> moved]
RetThrow == [kind |-> "throw", ret |-> "none", moved |-> FALSE]

\* r^2 = dx^2 + dy^2 of pixel (x,y) about (cx,cy), in 1/GeoDen^2
DistSq(x, y, p) ==
  (x * GeoDen - p.cx) * (x * GeoDen - p.cx)
    + (y * GeoDen - p.cy) * (y * GeoDen - p.cy)

\* const R = p.radiusPx || Math.min(W, H) * 0.5
RadiusOf(W, H, p) ==
  IF p.radiusPx # 0 THEN p.radiusPx ELSE Min2(W, H) * (GeoDen \div 2)

\* pinch.map: r' = R (r/R)^g, g = clamp(1 + amount/100, 0.05, 5), with r/R
\* raised to at least 1e-6; r' = r only when g = 1 and r > 0
pinch_map(x, y, W, H, p) ==
  LET r2 == DistSq(x, y, p)
      R  == RadiusOf(W, H, p)
  IN IF R <= 0 \/ r2 >= R * R THEN RetXY
     ELSE RetPolar(p.amount # 0 \/ r2 = 0)

\* twirl.map: theta' = theta + angle (1 - r/R)^e; at r = 0 the point is
\* (cx, cy) = (x, y) whatever the angle
twirl_map(x, y, W, H, p) ==
  LET r2 == DistSq(x, y, p)
      R  == RadiusOf(W, H, p)
  IN IF r2 >= R * R \/ R <= 0 THEN RetXY
     ELSE RetPolar(p.angle # 0 /\ r2 > 0)

\* zigzag.map: theta' = theta + A sin(2 pi f r/R); the point stays where
\* it is when A = 0, when the sine is 0 (2 f r/R an integer) and when the
\* turn is a full one (|A| = 360 degrees and the sine is +-1)
zigzag_map(x, y, W, H, p) ==
  LET r2 == DistSq(x, y, p)
      R  == RadiusOf(W, H, p)
      f  == p.frequency
      sinZero == \E n \in 0 .. (2 * f) : n * n * R * R = 4 * f * f * r2
      sinOne  == \E n \in 1 .. (4 * f) :
                   n % 2 = 1 /\ n * n * R * R = 16 * f * f * r2
  IN IF R <= 0 \/ r2 >= R * R \/ r2 = 0 THEN RetXY
     ELSE RetPolar(p.amount # 0 /\ ~sinZero
                     /\ ~(Abs(p.amount) = 360 /\ sinOne))

RadialFilters == {"pinch", "twirl", "zigzag"}

\* filter.map of the filter with id fid
map(fid, x, y, W, H, p) ==
  CASE fid = "pinch"  -> pinch_map(x, y, W, H, p)
    [] fid = "twirl"  -> twirl_map(x, y, W, H, p)
    [] fid = "zigzag" -> zigzag_map(x, y, W, H, p)

\* fn.length of every filter's map(x, y, W, H, p)
MapArity == 5

\* wrapMapper: what the formal parameters W, H and p of the filter's map
\* receive from the call the wrapper makes for an arity ar
wrapMapper(ar) ==
  IF ar = 3 THEN [W |-> "params", H |-> "undefined", p |-> "undefined"]
  ELSE IF ar = 2 THEN [W |-> "undefined", H |-> "undefined", p |-> "undefined"]
  ELSE \* ar >= 4 and the unknown signature: fn.call(filter, x, y, params, st)
       [W |-> "params", H |-> "st", p |-> "undefined"]

\* mapFn(x, y) of cpuWarp for a filter of the registry: the first statement
\* of every map reads p.cx (or another p.key), a TypeError when p is
\* undefined
InvokeMap(fid, x, y, W, H, params) ==
  IF wrapMapper(MapArity).p = "undefined" THEN RetThrow
  ELSE map(fid, x, y, W, H, params)

\* angular.map, the solver loop.  Number(p.iterations) is a number in
\* 1/Den, NaN or an infinity.
maxIters_NoCap(iterations) ==
  LET num == IF iterations.k = "nan"
                  \/ (iterations.k = "fin" /\ iterations.n = 0)
               THEN Fin(6 * Den) ELSE iterations
  IN IF num.k = "inf" THEN (IF num.n > 0 THEN 40 ELSE 1)
     ELSE Max2(1, FloorOf(num))

\* Math.max(1, Math.min(20, Math.floor(Number(p.iterations) || 6)))
maxIters(iterations) ==
  LET num == IF iterations.k = "nan"
                  \/ (iterations.k = "fin" /\ iterations.n = 0)
               THEN Fin(6 * Den) ELSE iterations
  IN IF num.k = "inf" THEN (IF num.n > 0 THEN 20 ELSE 1)
     ELSE Max2(1, Min2(20, FloorOf(num)))

\* for (k = 0; k < maxIters; k++) { step; if (!isFinite(theta)) break; }
\* the number of times the body runs when theta stops being finite in
\* iteration breakAt (0: never)
RECURSIVE angular_loop(_, _, _)
angular_loop(k, n, breakAt) ==
  IF k >= n THEN k
  ELSE IF k + 1 = breakAt THEN k + 1
  ELSE angular_loop(k + 1, n, breakAt)

\* angular.map up to the end of the loop: at the singularity
\* (Math.hypot(wRe, wIm) < 1e-6, the pixel at (cx, cy)) it returns the
\* transparent sentinel before the loop
angular_iters(x, y, p, iterations, breakAt) ==
  IF DistSq(x, y, p) = 0 THEN 0
  ELSE angular_loop(0, maxIters(iterations), breakAt)

(* ------------------------------ cpuWarp ------------------------------- *)
\* const mapFn = rawMap ? wrapMapper(rawMap, ...) : identityMap
mapFn(f, x, y, W, H) ==
  IF f.has THEN FilterMap(f, x, y, W, H) ELSE identityMap(x, y)

\* try { m = mapFn(x, y) } catch (e) { m = _tmpReuse(x, y) }
TryMap(f, x, y, W, H) ==
  LET r == mapFn(f, x, y, W, H)
  IN IF r.kind = "throw" THEN _tmpReuse(x, y) ELSE r

\* if (!m || m.u == null || m.v == null) m = _tmpReuse(x, y)
NullGuard(m, x, y) == IF m.kind = "null" THEN _tmpReuse(x, y) ELSE m

\* the four bytes written to dPix for one destination pixel
PixelOut(src, W, H, m, edge) ==
  LET rgba == sampleBilinear(src, W, H, m.u, m.v, edge)
      aMul == IF m.a = NoField THEN Den ELSE m.a
  IN << rgba[1], rgba[2], rgba[3], ToUint8Clamped(rgba[4] * aMul, Den) >>

\* const edge = st.edgeMode || "clamp"  ("" stands for every falsy value)
EdgeOf(edgeMode) == IF edgeMode = "" THEN "clamp" ELSE edgeMode

\* one pass: every destination pixel, then putImageData
cpuWarp(src, W, H, f, edgeMode) ==
  LET edge == EdgeOf(edgeMode)
  IN [dPix |-> [i \in 0 .. (W * H - 1) |->
                  LET x == i % W
                      y == i \div W
                  IN PixelOut(src, W, H,
                              NullGuard(TryMap(f, x, y, W, H), x, y), edge)],
      published |-> TRUE]

\* test sources: every texel differs from every other one
SrcBuf(kind, W, H) ==
  [i \in 0 .. (W * H - 1) |->
     LET x == i % W
         y == i \div W
     IN IF kind = 1 THEN << 10 * x + 1, 10 * y + 1, 7, 255 >>
                    ELSE << 200 - 10 * x, 20 * y + 3, 90, 101 + 10 * x + 20 * y >>]
SrcKinds == {1, 2}

(* ----------------------- the scratch buffers ------------------------- *)
\* engine.js keeps three module-level objects that every pixel reuses:
\* _px (written by fetch), _lr (written by lerp4) and _tmpUV (written by
\* _tmpReuse).  Here they are explicit: each helper takes the scratch
\* state S it finds and returns the one it leaves.
ScratchFresh ==
  [px |-> <<0, 0, 0, 0>>, lr |-> <<0, 0, 0, 0>>,
   uv |-> [u |-> Px(0), v |-> Px(0), a |-> Den]]
\* what an earlier pass over another image can have left behind
ScratchLeft ==
  [px |-> <<9, 8, 7, 6>>, lr |-> <<77, 66, 55, 44>>,
   uv |-> [u |-> Px(5), v |-> Px(4), a |-> Den]]

\* fetch: _px[0..3] = src[i..i+3]
fetchInto_KeepAlpha(S, src, W, H, x, y) ==
  LET t == fetch(src, W, H, x, y)
  IN [S EXCEPT !.px = << t[1], t[2], t[3], S.px[4] >>]

fetchInto(S, src, W, H, x, y) ==
  [S EXCEPT !.px = fetch(src, W, H, x, y)]

\* lerp4(a, b, t) where a and b are the scratch arrays named ra and rb:
\* channel k of _lr is written from channel k of a and of b
lerp4Into(S, ra, rb, t) ==
  [S EXCEPT !.lr = << lerpCh(S[ra][1], S[rb][1], t),
                      lerpCh(S[ra][2], S[rb][2], t),
                      lerpCh(S[ra][3], S[rb][3], t),
                      lerpCh(S[ra][4], S[rb][4], t) >>]

\* _tmpReuse(x, y): the three fields of _tmpUV are assigned
_tmpReuseInto(S, x, y) ==
  [S EXCEPT !.uv = [u |-> Px(x), v |-> Px(y), a |-> Den]]

\* sampleBilinear on the scratch state: four fetches, three lerp4
sampleInto(S, src, W, H, u, v, edge) ==
  IF ForcedTransparent(W, H, u, v, edge) THEN [S |-> S, out |-> _ZERO]
  ELSE
    LET fin == IsFinite(u) /\ IsFinite(v)
        L   == Lattice(W, H, u, v, edge)
        tx  == IF IsFinite(u) THEN FracOf(u) ELSE NaNInt
        ty  == IF IsFinite(v) THEN FracOf(v) ELSE NaNInt
        \* a non-finite coordinate makes the byte offset 0
        X0  == IF fin THEN L.x0 ELSE 0
        Y0  == IF fin THEN L.y0 ELSE 0
        X1  == IF fin THEN L.x1 ELSE 0
        Y1  == IF fin THEN L.y1 ELSE 0
    \* the seven writes in program order, each on the state the one
    \* before it left
    IN CHOOSE r \in
         { [S |-> S7, out |-> S7.lr] :
           S7 \in { lerp4Into(S6, "lr", "lr", ty) :
           S6 \in { lerp4Into(S5, "px", "px", tx) :
           S5 \in { lerp4Into(S4, "px", "px", tx) :
           S4 \in { fetchInto(S3, src, W, H, X1, Y1) :
           S3 \in { fetchInto(S2, src, W, H, X0, Y1) :
           S2 \in { fetchInto(S1, src, W, H, X1, Y0) :
           S1 \in { fetchInto(S, src, W, H, X0, Y0) } } } } } } } } : TRUE

\* the body of the pixel loop (lines 71-88) on the scratch state
pixelInto(S, src, W, H, f, x, y, edge) ==
  LET r    == mapFn(f, x, y, W, H)
      back == r.kind = "throw" \/ r.kind = "null"
  IN CHOOSE p \in
       { [S |-> sm.S,
          out |-> << sm.out[1], sm.out[2], sm.out[3],
                     ToUint8Clamped(sm.out[4] * sm.aMul, Den) >>] :
         sm \in
           UNION { { [S |-> t.S, out |-> t.out,
                      aMul |-> IF (IF back THEN S1.uv.a ELSE r.a) = NoField
                               THEN Den
                               ELSE IF back THEN S1.uv.a ELSE r.a] :
                     t \in { sampleInto(S1, src, W, H,
                                        IF back THEN S1.uv.u ELSE r.u,
                                        IF back THEN S1.uv.v ELSE r.v,
                                        edge) } } :
                   S1 \in { IF back THEN _tmpReuseInto(S, x, y) ELSE S } } } : TRUE

\* the loop of lines 68-90 from pixel i on: the scratch state left by one
\* pixel is the one the next pixel finds
RECURSIVE loopInto(_, _, _, _, _, _, _)
loopInto(S, src, W, H, f, edge, i) ==
  IF i >= W * H THEN << >>
  ELSE CHOOSE out \in
         { << r.out >> \o loopInto(r.S, src, W, H, f, edge, i + 1) :
           r \in { pixelInto(S, src, W, H, f, i % W, i \div W, edge) } } : TRUE

(* ============================ application ============================= *)
VARIABLES
  image,          \* state.image: the current source image, or NoImage
  sourceCanvas,   \* state.sourceCanvas: the offscreen canvas render() reads
  sourceVersion,  \* state.sourceVersion
  view,           \* the visible canvas #view: size and whose pixels it shows
  displayed,      \* canvasEl.style.display is not "none"
  filterId,       \* state.filterId
  currentFilter,  \* state.currentFilter (the id of the registry entry)
  raf,            \* main.js: let raf = 0
  rafQueue,       \* the browser's list of animation-frame callbacks
  nextHandle,     \* the next handle requestAnimationFrame returns
  committing,     \* canvas.js: let committing = false
  commitPc,       \* where the running commitToSource is suspended
  commitSnap,     \* the bitmap canvas.toBlob captured
  nextImg,        \* identity of the next Image object
  requests,       \* requestRender calls since the last animation frame
  lastFrame,      \* what the last animation frame ran
  lastPass,       \* the last render pass
  prevPass,       \* the render pass before it
  params,         \* state.params: one parameter record per filter id
  viewScale,      \* state.viewScale, in 1/ScaleDen
  uiOp,           \* the control handler that ran last, with its input
  eng,            \* the engine function last applied (SpecEngine)
  commitLog,      \* what became of the commitToSource calls so far
  sessionId,      \* main.js: const sessionId (the page's ?sessionId= or "")
  lastSeqApplied, \* main.js: let lastSeqApplied = -1
  currentLoadId,  \* main.js: let currentLoadId = 0
  loads,          \* LAB_IMAGE handlers suspended on their image's decode
  acks,           \* the LAB_IMAGE_APPLIED messages posted to the opener
  msgLog          \* the last message received and the last image accepted

\* the variables of the Photopea round trip
msgVars == << sessionId, lastSeqApplied, currentLoadId, loads, acks, msgLog >>
appVars == << image, sourceCanvas, sourceVersion, view, displayed, filterId,
              currentFilter, raf, rafQueue, nextHandle, committing, commitPc,
              commitSnap, nextImg, requests, lastFrame, lastPass, prevPass,
              params, viewScale, uiOp, commitLog, msgVars >>
vars == << image, sourceCanvas, sourceVersion, view, displayed, filterId,
           currentFilter, raf, rafQueue, nextHandle, committing, commitPc,
           commitSnap, nextImg, requests, lastFrame, lastPass, prevPass,
           params, viewScale, uiOp, eng, commitLog, msgVars >>

\* the ids of the registry (filters.js), registry[0] first
FilterIds == {"angular", "pinch", "twirl"}
FirstFilter == "angular"

\* defaultParamsFor(filter): every key of the declared schema with its
\* default (angular.js:27-49, pinch 4-12, twirl.js:6-13)
defaultParamsFor(fid) ==
  CASE fid = "angular" ->
         [amplitudeDeg |-> -6, harmonic |-> 8, phaseDeg |-> 0, centerX |-> 50,
          centerY |-> 50, scale |-> 120, rotate |-> 0, iterations |-> 6,
          clampRadius |-> 200, edgeMode |-> "transparent"]
    [] fid = "pinch" ->
         [amount |-> 50, radius |-> 100, centerX |-> 50, centerY |-> 50,
          edgeMode |-> "clamp"]
    [] fid = "twirl" ->
         [angle |-> 120, radius |-> 60, centerX |-> 50, centerY |-> 50,
          falloff |-> "quad", edgeMode |-> "clamp"]
\* the keys of a filter's declared schema
SchemaKeys(fid) == DOMAIN defaultParamsFor(fid)

\* state.viewScale is kept in 1/ScaleDen; setScale and fitToView clamp it
\* to [0.05, 8]
ScaleDen == 100
MinScale == 5
MaxScale == 800
NoOp == [op |-> "none"]

NoImage  == [id |-> 0, w |-> 0, h |-> 0]
NoCanvas == [id |-> 0, w |-> 0, h |-> 0]
\* sizes of the images a user loads
ImgDims == {[w |-> 2, h |-> 2], [w |-> MaxDim, h |-> 1],
            [w |-> 2000, h |-> 1000]}
\* sizes of the #stage element (getBoundingClientRect)
StageSizes == {[w |-> 0, h |-> 0], [w |-> 848, h |-> 648]}
\* the #view canvas before anything was drawn (stands for 300 x 150)
BlankView == [w |-> 2, h |-> 1, shows |-> 0]
NoPass == [valid |-> FALSE, w |-> 0, h |-> 0, ver |-> 0, sampled |-> 0,
           current |-> 0, decoded |-> FALSE, srcW |-> 0, srcH |-> 0,
           scale |-> 0, fid |-> "", edge |-> "", paramEdge |-> ""]
EngIdle == [op |-> "idle"]

\* no commit yet: `ignored' tells whether a click found the running commit's
\* guard set, `prev' how the last finished commit ended
NoCommits == [ignored |-> FALSE, prev |-> "none"]
\* the page's session ids: opened by the plugin with ?sessionId=, or without
LabSession == "s1"
LabSessions == {"", LabSession}
\* nothing received yet
NoMsgs == [stale |-> FALSE, qual |-> FALSE, seq |-> -1, newest |-> NoOp]

InitRest ==
  /\ image = NoImage
  /\ sourceCanvas = NoCanvas
  /\ sourceVersion = 0
  /\ view = BlankView
  /\ displayed = FALSE
  /\ filterId = FirstFilter
  /\ currentFilter = FirstFilter
  /\ raf = 0
  /\ rafQueue = {}
  /\ nextHandle = 1
  /\ committing = FALSE
  /\ commitPc = "idle"
  /\ commitSnap = BlankView
  /\ nextImg = 1
  /\ requests = 0
  /\ lastFrame = [requests |-> 0, renders |-> 0]
  /\ lastPass = NoPass
  /\ prevPass = NoPass
  /\ params = [f \in FilterIds |-> defaultParamsFor(f)]
  /\ viewScale = ScaleDen
  /\ uiOp = NoOp
  /\ eng = EngIdle
  /\ commitLog = NoCommits
  /\ lastSeqApplied = -1
  /\ currentLoadId = 0
  /\ loads = {}
  /\ acks = << >>
  /\ msgLog = NoMsgs

Init == sessionId = LabSession /\ InitRest

(* ------------------------- main.js: scheduling ------------------------ *)
\* requestAnimationFrame(cb): a fresh non-zero handle joins the list
CanSchedule == nextHandle <= MaxRaf

requestRender_NoCancel ==
  /\ CanSchedule
  /\ rafQueue' = rafQueue \cup {[h |-> nextHandle, kind |-> "render"]}
  /\ raf' = nextHandle
  /\ nextHandle' = nextHandle + 1
  /\ requests' = requests + 1

\* if (raf) cancelAnimationFrame(raf); raf = requestAnimationFrame(render)
requestRender ==
  /\ CanSchedule
  /\ rafQueue' = {c \in rafQueue : raf = 0 \/ c.h # raf}
                   \cup {[h |-> nextHandle, kind |-> "render"]}
  /\ raf' = nextHandle
  /\ nextHandle' = nextHandle + 1
  /\ requests' = requests + 1

(* ------------------------- engine.js: render -------------------------- *)
\* cpuWarp reads the source canvas (getImageData) on every pass
cpuWarpDecodes(canvas, ver, last) == TRUE

\* state.edgeMode: the state object (state.js:6-14) has no such field and
\* no statement assigns one, so cpuWarp reads undefined ("" here)
st_edgeMode == ""

\* render(): nothing without a source canvas; otherwise the view takes the
\* size of the source canvas and cpuWarp fills it from the source canvas.
\* w, h: the destination buffer (createImageData(W, H)); edge: the const
\* edge of cpuWarp; paramEdge: what params.edgeMode held during the pass.
PassOf(last) ==
  [valid |-> TRUE, w |-> sourceCanvas.w, h |-> sourceCanvas.h,
   ver |-> sourceVersion, sampled |-> sourceCanvas.id, current |-> image.id,
   decoded |-> cpuWarpDecodes(sourceCanvas, sourceVersion, last),
   srcW |-> sourceCanvas.w, srcH |-> sourceCanvas.h, scale |-> viewScale,
   fid |-> filterId, edge |-> EdgeOf(st_edgeMode),
   paramEdge |-> params[filterId].edgeMode]

\* n render() calls in a row (n >= 1)
Render(n) ==
  IF sourceCanvas = NoCanvas
    THEN UNCHANGED << view, lastPass, prevPass >>
    ELSE /\ view' = [w |-> sourceCanvas.w, h |-> sourceCanvas.h,
                     shows |-> sourceCanvas.id]
         /\ lastPass' = PassOf(IF n = 1 THEN lastPass ELSE PassOf(lastPass))
         /\ prevPass' = IF n = 1 THEN lastPass ELSE PassOf(lastPass)

\* An animation frame: the browser runs every callback of the list.
Frame ==
  /\ rafQueue # {}
  /\ LET n == Cardinality(rafQueue)
     IN /\ Render(n)
        /\ lastFrame' = [requests |-> requests, renders |-> n]
  /\ rafQueue' = {}
  /\ requests' = 0
  /\ UNCHANGED << image, sourceCanvas, sourceVersion, displayed, filterId,
                  currentFilter, raf, nextHandle, committing, commitPc,
                  commitSnap, nextImg, params, viewScale, uiOp, eng,
                  commitLog, msgVars >>

(* ------------------------- view scale: zoom and fit ------------------- *)
\* Math.max(0.05, Math.min(8, s)) on a scale in 1/ScaleDen
clampScale(s) == Max2(MinScale, Min2(MaxScale, s))

\* stage padding (canvas.js:55)
pad == 24

\* fitToView(): nothing without an image; else the scale that fits the
\* image into the stage, clamped
fitToView(img, stage) ==
  IF img = NoImage THEN viewScale
  ELSE LET availW == Max2(50, stage.w - pad * 2)
           availH == Max2(50, stage.h - pad * 2)
       IN clampScale(Min2((availW * ScaleDen) \div img.w,
                          (availH * ScaleDen) \div img.h))

(* --------------------------- loading an image ------------------------- *)
drawSource_NoBump(img) ==
  /\ sourceCanvas' = [id |-> img.id, w |-> img.w, h |-> img.h]
  /\ UNCHANGED sourceVersion

\* drawSource(): the source canvas is rebuilt from state.image and the
\* version is bumped
drawSource(img) ==
  /\ sourceCanvas' = [id |-> img.id, w |-> img.w, h |-> img.h]
  /\ sourceVersion' = sourceVersion + 1

\* img.onload of loadFileToState: state.image = img; show the canvas;
\* drawSource(); fitToView(); requestRender()
LoadImage ==
  /\ nextImg <= MaxImages
  /\ \E d \in ImgDims, stage \in StageSizes :
       LET img == [id |-> nextImg, w |-> d.w, h |-> d.h]
       IN /\ image' = img
          /\ drawSource(img)
          /\ viewScale' = fitToView(img, stage)
  /\ displayed' = TRUE
  /\ nextImg' = nextImg + 1
  /\ requestRender
  /\ UNCHANGED << view, filterId, currentFilter, committing, commitPc,
                  commitSnap, lastFrame, lastPass, prevPass, params, uiOp,
                  eng, commitLog, msgVars >>

(* ------------------------------ filter change ------------------------- *)
FilterChange_IdOnly ==
  /\ \E id \in FilterIds : filterId' = id
  /\ requestRender
  /\ UNCHANGED << image, sourceCanvas, sourceVersion, view, displayed,
                  committing, commitPc, commitSnap, nextImg, lastFrame,
                  lastPass, prevPass, params, viewScale, uiOp, eng,
                  commitLog, msgVars, currentFilter >>

\* filterSelect "change": currentFilter, filterId, requestRender()
FilterChange ==
  /\ \E id \in FilterIds :
       /\ currentFilter' = id
       /\ filterId' = id
  /\ requestRender
  /\ UNCHANGED << image, sourceCanvas, sourceVersion, view, displayed,
                  committing, commitPc, commitSnap, nextImg, lastFrame,
                  lastPass, prevPass, params, viewScale, uiOp, eng,
                  commitLog, msgVars >>

(* --------------------------- canvas.js: commit ------------------------ *)
\* commitBtn "click": commitToSource(); fitToView(); requestRender().
\* commitToSource runs up to its first await: it returns at once without an
\* image or while another commit runs, else it sets the guard and calls
\* canvas.toBlob, which captures the bitmap.
CommitClick ==
  /\ displayed
  /\ IF image = NoImage \/ committing
       THEN /\ UNCHANGED << committing, commitPc, commitSnap >>
            /\ commitLog' = IF image = NoImage THEN commitLog
                             ELSE [commitLog EXCEPT !.ignored = TRUE]
       ELSE /\ committing' = TRUE
            /\ commitPc' = "blob"
            /\ commitSnap' = view
            /\ commitLog' = [commitLog EXCEPT !.ignored = FALSE]
  /\ \E stage \in StageSizes : viewScale' = fitToView(image, stage)
  /\ requestRender
  /\ UNCHANGED << image, sourceCanvas, sourceVersion, view, displayed,
                  filterId, currentFilter, nextImg, lastFrame, lastPass,
                  prevPass, params, uiOp, eng, msgVars >>

CommitBlob_NoFinally ==
  /\ commitPc = "blob"
  /\ \E ok \in {b \in BOOLEAN : b => commitSnap.w * commitSnap.h > 0} :
       IF ok THEN /\ commitPc' = "img"
                  /\ UNCHANGED << committing, commitLog >>
             ELSE /\ commitPc' = "idle"
                  /\ UNCHANGED committing
                  /\ commitLog' = [commitLog EXCEPT !.prev = "failed"]
  /\ UNCHANGED << image, sourceCanvas, sourceVersion, view, displayed,
                  filterId, currentFilter, raf, rafQueue, nextHandle,
                  commitSnap, nextImg, requests, lastFrame, lastPass,
                  prevPass, params, viewScale, uiOp, eng, msgVars >>

\* the toBlob callback: a blob, or null (reject; finally releases the
\* guard).  A canvas without pixels (width or height 0) yields null.
CommitBlob ==
  /\ commitPc = "blob"
  /\ \E ok \in {b \in BOOLEAN : b => commitSnap.w * commitSnap.h > 0} :
       IF ok THEN /\ commitPc' = "img"
                  /\ UNCHANGED << committing, commitLog >>
             ELSE /\ commitPc' = "idle"
                  /\ committing' = FALSE
                  /\ commitLog' = [commitLog EXCEPT !.prev = "failed"]
  /\ UNCHANGED << image, sourceCanvas, sourceVersion, view, displayed,
                  filterId, currentFilter, raf, rafQueue, nextHandle,
                  commitSnap, nextImg, requests, lastFrame, lastPass,
                  prevPass, params, viewScale, uiOp, eng, msgVars >>

\* img.onload: swap the image in, bump the version, size and clear the
\* visible canvas; img.onerror: reject.  finally releases the guard.
CommitImage ==
  /\ commitPc = "img"
  /\ nextImg <= MaxImages
  /\ \E ok \in BOOLEAN :
       IF ok THEN /\ image' = [id |-> nextImg, w |-> commitSnap.w,
                               h |-> commitSnap.h]
                  /\ sourceVersion' = sourceVersion + 1
                  /\ view' = [w |-> commitSnap.w, h |-> commitSnap.h,
                              shows |-> 0]
                  /\ nextImg' = nextImg + 1
                  /\ commitLog' = [commitLog EXCEPT !.prev = "ok"]
             ELSE /\ UNCHANGED << image, sourceVersion, view, nextImg >>
                  /\ commitLog' = [commitLog EXCEPT !.prev = "failed"]
  /\ commitPc' = "idle"
  /\ committing' = FALSE
  /\ UNCHANGED << sourceCanvas, displayed, filterId, currentFilter, raf,
                  rafQueue, nextHandle, commitSnap, requests, lastFrame,
                  lastPass, prevPass, params, viewScale, uiOp, eng, msgVars >>

Next ==
  \/ LoadImage
  \/ FilterChange
  \/ CommitClick
  \/ CommitBlob
  \/ CommitImage
  \/ Frame

Spec == Init /\ [][Next]_vars

\* The browser runs the animation-frame callbacks it holds, calls the
\* toBlob callback and fires the image's load or error event; the user may
\* stop clicking at any time.
SpecFair ==
  /\ Init /\ [][Next]_vars
  /\ WF_vars(Frame)
  /\ WF_vars(CommitBlob)
  /\ WF_vars(CommitImage)

(* ============================== controls ============================== *)
\* the handlers left untouched by a control
ctlRest == << image, sourceCanvas, sourceVersion, view, displayed, committing,
             commitPc, commitSnap, nextImg, lastFrame, lastPass, prevPass,
             eng, commitLog, msgVars >>

\* state.params[fid][key] = val
SetKey(rec, key, val) ==
  [k \in (DOMAIN rec) \cup {key} |-> IF k = key THEN val ELSE rec[k]]

Spread_NoBase(base, over) == over

\* { ...base, ...over }
Spread(base, over) ==
  [k \in (DOMAIN base) \cup (DOMAIN over) |->
     IF k \in DOMAIN over THEN over[k] ELSE base[k]]

\* what the inputs of the parameter panel deliver, after coerce(): the
\* options of the Edges select and the ends of two sliders
EdgeOptions == {"clamp", "wrap", "mirror", "transparent"}
ParamInputs(fid) ==
  {[key |-> "edgeMode", val |-> e] : e \in EdgeOptions}
    \cup (IF fid = "angular"
            THEN {[key |-> "iterations", val |-> 1],
                  [key |-> "iterations", val |-> 20]}
            ELSE {[key |-> "radius", val |-> 0]})

\* the panel's onChange: setParam(state.filterId, key, val); requestRender()
SetParam ==
  /\ \E inp \in ParamInputs(currentFilter) :
       /\ params' = [params EXCEPT
                       ![filterId] = SetKey(params[filterId], inp.key, inp.val)]
       /\ uiOp' = [op |-> "setParam", fid |-> filterId, key |-> inp.key,
                   val |-> inp.val]
  /\ requestRender
  /\ UNCHANGED << filterId, currentFilter, viewScale >>
  /\ UNCHANGED ctlRest

\* defaultsBtn "click"
Defaults ==
  /\ params' = [params EXCEPT ![filterId] = defaultParamsFor(currentFilter)]
  /\ uiOp' = [op |-> "defaults", fid |-> filterId]
  /\ requestRender
  /\ UNCHANGED << filterId, currentFilter, viewScale >>
  /\ UNCHANGED ctlRest

(* ------------------------------- presets ------------------------------ *)
\* A preset file after JSON.parse: data.type, data.filter (Absent: the file
\* has no such field), typeof data.params ("null": data.params is null) and
\* the keys data.params carries.
Absent == "(absent)"
NoKeys == [k \in {} |-> 0]
PresetType == "distort-lab-preset"
PresetFiles ==
  { [type |-> PresetType, filter |-> "pinch", pk |-> "object",
     params |-> [amount |-> -20]],
    [type |-> PresetType, filter |-> "twirl", pk |-> "object",
     params |-> [angle |-> 90, edgeMode |-> "wrap"]],
    [type |-> PresetType, filter |-> "ghost", pk |-> "object",
     params |-> [amount |-> -20]],
    [type |-> PresetType, filter |-> Absent, pk |-> "object",
     params |-> [amount |-> -20]],
    [type |-> "image", filter |-> "pinch", pk |-> "object",
     params |-> [amount |-> -20]],
    [type |-> PresetType, filter |-> "pinch", pk |-> "string",
     params |-> NoKeys],
    [type |-> PresetType, filter |-> "angular", pk |-> "null",
     params |-> NoKeys] }

\* loadPresetFile "change" (main.js:175-220): an invalid file and a filter
\* id the registry lacks are refused with an alert; a file naming another
\* filter switches to it; then the file's params are spread over the
\* defaults of the current filter and stored under state.filterId.
PresetLoad ==
  \E file \in PresetFiles :
    LET valid      == file.type = PresetType /\ file.pk \in {"object", "null"}
        needSwitch == file.filter # Absent /\ file.filter # filterId
        found      == file.filter \in FilterIds
        accept     == valid /\ (needSwitch => found)
        target     == IF needSwitch THEN file.filter ELSE filterId
        stored     == [params EXCEPT
                         ![target] = Spread(defaultParamsFor(target),
                                            file.params)]
    IN /\ uiOp' = [op |-> "preset", file |-> file, fidBefore |-> filterId,
                   accepted |-> accept, storedUnder |-> target,
                   changed |-> {f \in FilterIds :
                                  accept /\ stored[f] # params[f]}]
       /\ IF accept
            THEN /\ currentFilter' = target
                 /\ filterId' = target
                 /\ params' = stored
                 /\ requestRender
            ELSE UNCHANGED << currentFilter, filterId, params, raf, rafQueue,
                             nextHandle, requests >>
       /\ UNCHANGED viewScale
       /\ UNCHANGED ctlRest

(* --------------------------------- zoom ------------------------------- *)
setScale_NoClamp(newScale) == newScale.n

\* setScale(newScale): Math.max(0.05, Math.min(8, newScale || 1)); the
\* argument is a number in 1/ScaleDen, NaN or an infinity
setScale(newScale) ==
  LET s == IF newScale.k = "nan" \/ (newScale.k = "fin" /\ newScale.n = 0)
             THEN Fin(ScaleDen) ELSE newScale
  IN IF s.k = "inf" THEN (IF s.n > 0 THEN MaxScale ELSE MinScale)
     ELSE clampScale(s.n)

\* the zoom step 1.1 as the fraction 11/10
ZoomNum == 11
ZoomDen == 10

\* zoomInBtn, zoomOutBtn, zoom100Btn "click"; then requestRender()
ZoomIn ==
  /\ viewScale' = setScale(Fin((viewScale * ZoomNum) \div ZoomDen))
  /\ uiOp' = [op |-> "zoomIn"]
  /\ requestRender
  /\ UNCHANGED << filterId, currentFilter, params >>
  /\ UNCHANGED ctlRest

ZoomOut ==
  /\ viewScale' = setScale(Fin((viewScale * ZoomDen) \div ZoomNum))
  /\ uiOp' = [op |-> "zoomOut"]
  /\ requestRender
  /\ UNCHANGED << filterId, currentFilter, params >>
  /\ UNCHANGED ctlRest

Zoom100 ==
  /\ viewScale' = setScale(Fin(ScaleDen))
  /\ uiOp' = [op |-> "zoom100"]
  /\ requestRender
  /\ UNCHANGED << filterId, currentFilter, params >>
  /\ UNCHANGED ctlRest

\* fitBtn "click": fitToView(); requestRender()
FitClick ==
  /\ \E stage \in StageSizes : viewScale' = fitToView(image, stage)
  /\ uiOp' = [op |-> "fit"]
  /\ requestRender
  /\ UNCHANGED << filterId, currentFilter, params >>
  /\ UNCHANGED ctlRest

\* the first MaxCtl handles go to the controls of one run
CanControl == nextHandle <= MaxCtl
UILoad == CanControl /\ LoadImage
UIFilterChange == CanControl /\ FilterChange
UISetParam == CanControl /\ SetParam
UIDefaults == CanControl /\ Defaults
UIPresetLoad == CanControl /\ PresetLoad
UIZoomIn == CanControl /\ ZoomIn
UIZoomOut == CanControl /\ ZoomOut
UIZoom100 == CanControl /\ Zoom100
UIFitClick == CanControl /\ FitClick
UICommitClick == CanControl /\ CommitClick

NextUI ==
  \/ UILoad
  \/ UIFilterChange
  \/ UISetParam
  \/ UIDefaults
  \/ UIPresetLoad
  \/ UIZoomIn
  \/ UIZoomOut
  \/ UIZoom100
  \/ UIFitClick
  \/ UICommitClick
  \/ CommitBlob
  \/ CommitImage
  \/ Frame

SpecUI == Init /\ [][NextUI]_vars

(* ======================== Photopea round trip ========================= *)
\* window "message" (main.js:503-567).  A message is what the handler
\* reads of the event: ev.origin, msg.sessionId ("" stands for every falsy
\* value, a missing field included), msg.type, whether msg.buffer is an
\* ArrayBuffer, msg.seq (hasSeq: typeof msg.seq === "number"), and whether
\* the buffer holds an image the browser can decode.
PluginOrigin == "https://pt-home.github.io"
Origins == {PluginOrigin, "https://example.org"}
MsgSessions == {"", LabSession, "s2"}
MsgTypes == {"LAB_OPEN", "LAB_IMAGE"}
\* images from the plugin, with every session id, with and without seq,
\* decodable or not; the same from another origin; LAB_OPEN; a LAB_IMAGE
\* without a buffer
Msgs ==
  {m \in [origin : {PluginOrigin}, sid : MsgSessions, type : {"LAB_IMAGE"},
          buffer : {TRUE}, hasSeq : BOOLEAN, seq : 0 .. MaxSeq,
          ok : BOOLEAN] : ~m.hasSeq => m.seq = 0}
  \cup [origin : Origins \ {PluginOrigin}, sid : {LabSession},
        type : {"LAB_IMAGE"}, buffer : {TRUE}, hasSeq : {TRUE},
        seq : {MaxSeq}, ok : {TRUE}]
  \cup [origin : {PluginOrigin}, sid : {LabSession}, type : MsgTypes,
        buffer : {FALSE}, hasSeq : {TRUE}, seq : {MaxSeq}, ok : {TRUE}]
\* the size of the images the plugin sends
MsgDim == [w |-> 2, h |-> 2]

\* ev.origin !== "https://pt-home.github.io" -> return
TrustedOrigin(m) == m.origin = PluginOrigin
\* msg.sessionId && sessionId && msg.sessionId !== sessionId -> return
SessionPasses(m) == ~(m.sid # "" /\ sessionId # "" /\ m.sid # sessionId)
\* const seq = typeof msg.seq === "number" ? msg.seq : -1
SeqOf(m) == IF m.hasSeq THEN m.seq ELSE -1
\* if (seq <= lastSeqApplied) return
IsStale_Never(m) == FALSE

IsStale(m) == SeqOf(m) <= lastSeqApplied

\* a well-formed image of the page's own session: from the plugin's origin,
\* with the page's session id and a buffer the browser can decode
Qualifies(m) ==
  /\ m.origin = PluginOrigin /\ m.sid = sessionId
  /\ m.type = "LAB_IMAGE" /\ m.buffer /\ m.ok

\* how far the handler gets with a message
FateOf(m) ==
  IF ~TrustedOrigin(m) THEN "origin"
  ELSE IF ~SessionPasses(m) THEN "session"
  ELSE IF m.type = "LAB_OPEN" THEN "open"
  ELSE IF ~(m.type = "LAB_IMAGE" /\ m.buffer) THEN "ignored"
  ELSE IF IsStale(m) THEN "stale"
  ELSE "accepted"

\* what a message leaves alone when the handler returns early
msgRest == << image, sourceCanvas, sourceVersion, view, displayed, raf,
             rafQueue, nextImg, lastSeqApplied, currentLoadId, loads, acks >>

\* The handler up to its await: the early returns, then ++currentLoadId,
\* the hard reset (cancel the pending render, clear and hide the canvas,
\* drop image and source canvas) and the start of the decode.
Receive(m) ==
  /\ IF FateOf(m) = "accepted"
       THEN /\ currentLoadId < MaxMsgs
            /\ nextImg <= MaxImages
            /\ currentLoadId' = currentLoadId + 1
            /\ rafQueue' = {c \in rafQueue : raf = 0 \/ c.h # raf}
            /\ raf' = 0
            /\ view' = [w |-> 0, h |-> 0, shows |-> 0]
            /\ displayed' = FALSE
            /\ image' = NoImage
            /\ sourceCanvas' = NoCanvas
            /\ loads' = loads \cup
                 {[loadId |-> currentLoadId + 1, seq |-> SeqOf(m),
                   img |-> [id |-> nextImg, w |-> MsgDim.w, h |-> MsgDim.h],
                   ok |-> m.ok]}
            /\ nextImg' = nextImg + 1
            /\ msgLog' = [stale |-> FALSE, qual |-> Qualifies(m),
                          seq |-> IF Qualifies(m) THEN SeqOf(m) ELSE -1,
                          newest |-> [img |-> nextImg, seq |-> SeqOf(m),
                                      ok |-> m.ok]]
            /\ UNCHANGED << sourceVersion, lastSeqApplied, acks >>
       ELSE /\ msgLog' =
                 [msgLog EXCEPT !.stale = FateOf(m) = "stale",
                                !.qual = Qualifies(m),
                                !.seq = IF Qualifies(m) THEN SeqOf(m) ELSE -1]
            /\ UNCHANGED msgRest
  /\ UNCHANGED << filterId, currentFilter, nextHandle, committing, commitPc,
                  commitSnap, requests, lastFrame, lastPass, prevPass, params,
                  viewScale, uiOp, eng, commitLog, sessionId >>

Message == \E m \in Msgs : Receive(m)

\* img.onload of the handler: state.image = img; show the canvas;
\* drawSource(); a superseded load stops here; else fitToView(),
\* requestRender(), lastSeqApplied = seq and LAB_IMAGE_APPLIED is posted.
\* `rendered' notes whether a render pass had sampled the image by then.
DecodeDone ==
  \E l \in loads :
    /\ l.ok
    /\ loads' = loads \ {l}
    /\ image' = l.img
    /\ displayed' = TRUE
    /\ drawSource(l.img)
    /\ IF l.loadId # currentLoadId
         THEN UNCHANGED << viewScale, raf, rafQueue, nextHandle, requests,
                           lastSeqApplied, acks >>
         ELSE /\ \E stage \in StageSizes :
                   viewScale' = fitToView(l.img, stage)
              /\ requestRender
              /\ lastSeqApplied' = l.seq
              /\ acks' = Append(acks,
                   [seq |-> l.seq, img |-> l.img.id,
                    rendered |-> lastPass.valid /\ lastPass.sampled = l.img.id])
    /\ UNCHANGED << view, filterId, currentFilter, committing, commitPc,
                    commitSnap, nextImg, lastFrame, lastPass, prevPass,
                    params, uiOp, eng, commitLog, sessionId, currentLoadId,
                    msgLog >>

\* the buffer is not an image: the handler sets no onerror, so nothing
\* runs and its promise stays pending
DecodeError ==
  \E l \in loads :
    /\ ~l.ok
    /\ loads' = loads \ {l}
    /\ UNCHANGED << image, sourceCanvas, sourceVersion, view, displayed,
                    filterId, currentFilter, raf, rafQueue, nextHandle,
                    committing, commitPc, commitSnap, nextImg, requests,
                    lastFrame, lastPass, prevPass, params, viewScale, uiOp,
                    eng, commitLog, sessionId, lastSeqApplied, currentLoadId,
                    acks, msgLog >>

\* the page was opened by the plugin (with ?sessionId=) or without
InitMsg == sessionId \in LabSessions /\ InitRest

NextMsg ==
  \/ Message
  \/ DecodeDone
  \/ DecodeError
  \/ Frame

SpecMsg == InitMsg /\ [][NextMsg]_vars

\* The three ways the source image is replaced, together: the user's loads
\* and commits and the plugin's images (well-formed ones, of the page's
\* session, numbered 0, 1, 2, ... as the plugin sends them).
SourceMsgs ==
  {m \in Msgs : /\ m.origin = PluginOrigin /\ m.sid = LabSession
                 /\ m.type = "LAB_IMAGE" /\ m.buffer /\ m.ok
                 /\ m.hasSeq /\ m.seq = currentLoadId}
PluginImage == \E m \in SourceMsgs : Receive(m)

NextSource ==
  \/ UILoad
  \/ UICommitClick
  \/ CommitBlob
  \/ CommitImage
  \/ PluginImage
  \/ DecodeDone
  \/ Frame

SpecSource == Init /\ [][NextSource]_vars

\* The browser delivers the load event of an image it can decode and runs
\* the animation-frame callbacks; messages may stop arriving at any time.
SpecMsgFair ==
  /\ InitMsg /\ [][NextMsg]_vars
  /\ WF_vars(DecodeDone)
  /\ WF_vars(DecodeError)
  /\ WF_vars(Frame)

(* ======================= the engine's functions ======================= *)
\* Each run applies one function once to inputs drawn from the sets below.
Dims == 1 .. MaxDim
\* values of st.edgeMode: "" is unset, "foo" is not an edge mode
EdgeModes == {"", "clamp", "wrap", "mirror", "transparent", "foo"}
EdgeValues == EdgeModes \ {""}
KnownEdges == {"clamp", "wrap", "mirror", "transparent"}
Coords == {Fin(n) : n \in (0 - MaxCoord * Den) .. (MaxCoord * Den)}
            \cup {NaN, PosInf, NegInf}
IntCoords == (0 - MaxCoord) .. MaxCoord
Shifts == {0 - (Den + 1), 0, 1}
NoFilter == [has |-> FALSE, dx |-> 0, dy |-> 0, sx |-> 0, sy |-> 0,
             special |-> "plain"]
Filters(W, H) ==
  {NoFilter} \cup
  [has : {TRUE}, dx : Shifts, dy : Shifts, sx : 0 .. (W - 1),
   sy : 0 .. (H - 1), special : Behaviours]

\* sampleBilinear(src, W, H, u, v, edge)
SampleStep ==
  /\ eng.op = "idle"
  /\ \E W \in Dims, H \in Dims, kind \in SrcKinds, edge \in EdgeValues,
        u \in Coords, v \in Coords :
       eng' = [op |-> "sample", W |-> W, H |-> H, kind |-> kind,
               edge |-> edge, u |-> u, v |-> v,
               forced |-> ForcedTransparent(W, H, u, v, edge),
               out |-> sampleBilinear(SrcBuf(kind, W, H), W, H, u, v, edge)]
  /\ UNCHANGED appVars

\* resolveEdge(W, H, x, y, edge) and edgeResolve(x, y, W, H, edge)
ResolveStep ==
  /\ eng.op = "idle"
  /\ \E W \in Dims, H \in Dims, edge \in EdgeValues,
        x \in IntCoords, y \in IntCoords :
       eng' = [op |-> "resolve", W |-> W, H |-> H, edge |-> edge,
               x |-> x, y |-> y,
               re |-> resolveEdge(W, H, x, y, edge),
               ut |-> edgeResolve(x, y, W, H, edge)]
  /\ UNCHANGED appVars

\* cpuWarp(dstCtx, srcCanvas, filter, st)
PassStep ==
  /\ eng.op = "idle"
  /\ \E W \in Dims, H \in Dims, kind \in SrcKinds, edgeMode \in EdgeModes :
       \E f \in Filters(W, H) :
         eng' = [op |-> "pass", W |-> W, H |-> H, kind |-> kind,
                 edgeMode |-> edgeMode, f |-> f,
                 res |-> cpuWarp(SrcBuf(kind, W, H), W, H, f, edgeMode)]
  /\ UNCHANGED appVars

\* the percentages of the Center X/Y and Radius sliders
Centers == {0, 50, 100}
Radii == {0, 50, 100}
\* parameter records of the radial filters
RadialParams(fid) ==
  CASE fid = "pinch" ->
         [amount : {-100, 0, 50}, radius : Radii, centerX : Centers,
          centerY : Centers, edgeMode : {"clamp"}]
    [] fid = "twirl" ->
         [angle : {0, 120}, radius : Radii, centerX : Centers,
          centerY : Centers, falloff : {"quad"}, edgeMode : {"clamp"}]
    [] fid = "zigzag" ->
         [amount : {5, 360}, frequency : {0, 3}, radius : Radii,
          centerX : Centers, centerY : Centers, edgeMode : {"clamp"}]

\* p with the derived fields the filters read (angular.js:53: "p contains
\* UI parameters and derived center/radius"): cx = centerX% W,
\* cy = centerY% H, radiusPx = radius% min(W,H) 0.5, in 1/GeoDen
WithGeometry(p, W, H) ==
  Spread(p, [cx |-> 2 * p.centerX * W, cy |-> 2 * p.centerY * H,
             radiusPx |-> p.radius * Min2(W, H)])

\* filter.map(x, y, W, H, p) called with the derived fields in p
MapStep ==
  /\ eng.op = "idle"
  /\ \E fid \in RadialFilters, W \in Dims, H \in Dims :
       \E x \in 0 .. (W - 1), y \in 0 .. (H - 1), p \in RadialParams(fid) :
         LET q == WithGeometry(p, W, H)
         IN eng' = [op |-> "map", fid |-> fid, W |-> W, H |-> H, x |-> x,
                    y |-> y, p |-> q, r2 |-> DistSq(x, y, q),
                    ret |-> map(fid, x, y, W, H, q)]
  /\ UNCHANGED appVars

\* one pixel of cpuWarp with a filter of the registry: mapFn(x, y) inside
\* the try, the catch and the null guard
InvokeStep ==
  /\ eng.op = "idle"
  /\ \E fid \in RadialFilters, W \in Dims, H \in Dims :
       \E x \in 0 .. (W - 1), y \in 0 .. (H - 1), p \in RadialParams(fid) :
         LET ret == InvokeMap(fid, x, y, W, H, p)
         IN eng' = [op |-> "invoke", fid |-> fid, W |-> W, H |-> H, x |-> x,
                    y |-> y, p |-> p, args |-> wrapMapper(MapArity),
                    ret |-> ret, fellBack |-> ret.kind = "throw",
                    m |-> IF ret.kind = "throw" THEN RetXY ELSE ret]
  /\ UNCHANGED appVars

\* values of Number(p.iterations): 0, negative, fractional, in range,
\* above the cap, NaN, the infinities
IterValues ==
  {Fin(0), Fin(0 - 3 * Den), Fin(1), Fin(Den), Fin(6 * Den), Fin(20 * Den),
   Fin(25 * Den), NaN, PosInf, NegInf}
BreakAts == {0, 1, 3}

\* angular.map(x, y, W, H, p): how often the solver loop runs
AngularStep ==
  /\ eng.op = "idle"
  /\ \E W \in Dims, H \in Dims, cX \in Centers, cY \in Centers,
        it \in IterValues, breakAt \in BreakAts :
       \E x \in 0 .. (W - 1), y \in 0 .. (H - 1) :
         LET q == [cx |-> 2 * cX * W, cy |-> 2 * cY * H]
         IN eng' = [op |-> "angular", W |-> W, H |-> H, x |-> x, y |-> y,
                    p |-> q, iterations |-> it, breakAt |-> breakAt,
                    singular |-> DistSq(x, y, q) = 0,
                    iters |-> angular_iters(x, y, q, it, breakAt)]
  /\ UNCHANGED appVars

\* scratch states a pass can start from
Scratches == {ScratchFresh, ScratchLeft}

\* the source whose alpha differs from texel to texel
ScratchKind == 2
\* filters that shift along the diagonal
ScratchFilters(W, H) == {f \in Filters(W, H) : f.dx = f.dy}

\* the pixel loop of cpuWarp with its scratch buffers, from the scratch
\* state `start'
ScratchStep ==
  /\ eng.op = "idle"
  /\ \E W \in Dims, H \in Dims, edgeMode \in EdgeModes, start \in Scratches :
       \E f \in ScratchFilters(W, H) :
         eng' = [op |-> "scratch", W |-> W, H |-> H, kind |-> ScratchKind,
                 edgeMode |-> edgeMode, f |-> f, start |-> start,
                 loop |-> loopInto(start, SrcBuf(ScratchKind, W, H), W, H, f,
                                   EdgeOf(edgeMode), 0)]
  /\ UNCHANGED appVars

NextEngine ==
  \/ SampleStep
  \/ ResolveStep
  \/ PassStep
  \/ MapStep
  \/ InvokeStep
  \/ AngularStep
  \/ ScratchStep

SpecEngine == Init /\ [][NextEngine]_vars

(* =============================== claims =============================== *)
\* the source buffer and edge of the engine function applied
EngSrc == SrcBuf(eng.kind, eng.W, eng.H)
PassEdge == EdgeOf(eng.edgeMode)
SpecialIdx == eng.f.sy * eng.W + eng.f.sx
IsInt(c) == IsFinite(c) /\ c.n % Den = 0

\* C1: render requests are coalesced: at most one callback scheduled by
\* requestRender is pending, and a frame that follows one or more
\* requestRender calls runs exactly one render pass for them.
C1_Coalesced ==
  /\ Cardinality({c \in rafQueue : c.kind = "render"}) <= 1
  /\ lastFrame.requests >= 1 => lastFrame.renders = 1
\* a frame ran after several requestRender calls
C1_Witness == lastFrame.requests >= 2 /\ lastFrame.renders = 1

\* C2: two consecutive render passes with an unchanged source (same width,
\* height and sourceVersion) do not re-decode the source: the second pass
\* does not read the source canvas again.
C2_NoRedecode ==
  (/\ lastPass.valid
   /\ prevPass.valid
   /\ lastPass.w = prevPass.w
   /\ lastPass.h = prevPass.h
   /\ lastPass.ver = prevPass.ver) => ~lastPass.decoded

\* C3: a render pass never samples stale pixels: when the width, height or
\* sourceVersion differ from those of the previous decode, the pass samples
\* the pixels of the current source image.
C3_NeverStale ==
  (/\ lastPass.valid
   /\ \/ ~prevPass.valid
      \/ lastPass.w # prevPass.w
      \/ lastPass.h # prevPass.h
      \/ lastPass.ver # prevPass.ver) => lastPass.sampled = lastPass.current

\* C4: a map invocation that throws for one pixel does not abort the pass:
\* that pixel is the sample at its own coordinates (x,y), every other pixel
\* is the sample at the coordinates the filter returned, and the pass is
\* published.
C4_ThrowIsIdentity ==
  (eng.op = "pass" /\ eng.f.has /\ eng.f.special = "throw") =>
    /\ eng.res.published
    /\ \A i \in 0 .. (eng.W * eng.H - 1) :
         LET x == i % eng.W
             y == i \div eng.W
         IN eng.res.dPix[i] =
              IF i = SpecialIdx
                THEN sampleBilinear(EngSrc, eng.W, eng.H, Px(x), Px(y), PassEdge)
                ELSE sampleBilinear(EngSrc, eng.W, eng.H,
                                    Fin(x * Den + eng.f.dx),
                                    Fin(y * Den + eng.f.dy), PassEdge)
\* a pass in which the throwing pixel visibly differs from what the
\* filter's displacement would have sampled there
C4_Witness ==
  /\ eng.op = "pass" /\ eng.f.has /\ eng.f.special = "throw"
  /\ eng.W * eng.H >= 2
  /\ eng.res.published
  /\ eng.res.dPix[SpecialIdx] #
       sampleBilinear(EngSrc, eng.W, eng.H,
                      Fin(eng.f.sx * Den + eng.f.dx),
                      Fin(eng.f.sy * Den + eng.f.dy), PassEdge)

\* C5: when the map returns a non-finite coordinate for pixel (x,y), the
\* destination pixel is the sample of the source at (x,y).
C5_NonFiniteIsIdentity ==
  (eng.op = "pass" /\ eng.f.has /\ eng.f.special \in {"nan", "inf"}) =>
    eng.res.dPix[SpecialIdx] =
      sampleBilinear(EngSrc, eng.W, eng.H, Px(eng.f.sx), Px(eng.f.sy), PassEdge)

\* C6: whenever the map result carries the transparency sentinel (alpha
\* override 0), the destination pixel's alpha is 0 under every edge mode.
C6_SentinelTransparent ==
  (eng.op = "pass" /\ eng.f.has /\ eng.f.special = "pole") =>
    eng.res.dPix[SpecialIdx][4] = 0

\* C7: bilinear exactness: for W,H >= 2, edge mode clamp, wrap or mirror and
\* integer (u,v) with 0 <= u <= W-2, 0 <= v <= H-2, sampleBilinear returns
\* exactly the texel (u,v).
C7_BilinearExact ==
  (/\ eng.op = "sample"
   /\ eng.W >= 2 /\ eng.H >= 2
   /\ eng.edge \in {"clamp", "wrap", "mirror"}
   /\ IsInt(eng.u) /\ IsInt(eng.v)
   /\ FloorOf(eng.u) \in 0 .. (eng.W - 2)
   /\ FloorOf(eng.v) \in 0 .. (eng.H - 2))
  => eng.out = EngSrc[FloorOf(eng.v) * eng.W + FloorOf(eng.u)]

\* C8: edge-mode round trip on integer coordinates, for every dimension
\* >= 2 and both resolvers: in wrap mode W + k resolves as k (0 <= k < W);
\* in mirror mode -1 resolves as 1 and W resolves as W - 2.
C8_RoundTrip ==
  eng.op = "resolve" =>
    /\ (eng.edge = "wrap" /\ eng.W >= 2 /\ eng.x \in eng.W .. (2 * eng.W - 1)) =>
         /\ eng.re.x = resolveEdge(eng.W, eng.H, eng.x - eng.W, eng.y, "wrap").x
         /\ eng.ut.ux = edgeResolve(eng.x - eng.W, eng.y, eng.W, eng.H, "wrap").ux
    /\ (eng.edge = "wrap" /\ eng.H >= 2 /\ eng.y \in eng.H .. (2 * eng.H - 1)) =>
         /\ eng.re.y = resolveEdge(eng.W, eng.H, eng.x, eng.y - eng.H, "wrap").y
         /\ eng.ut.vy = edgeResolve(eng.x, eng.y - eng.H, eng.W, eng.H, "wrap").vy
    /\ (eng.edge = "mirror" /\ eng.W >= 2 /\ eng.x = -1) =>
         /\ eng.re.x = resolveEdge(eng.W, eng.H, 1, eng.y, "mirror").x
         /\ eng.ut.ux = edgeResolve(1, eng.y, eng.W, eng.H, "mirror").ux
    /\ (eng.edge = "mirror" /\ eng.W >= 2 /\ eng.x = eng.W) =>
         /\ eng.re.x = resolveEdge(eng.W, eng.H, eng.W - 2, eng.y, "mirror").x
         /\ eng.ut.ux = edgeResolve(eng.W - 2, eng.y, eng.W, eng.H, "mirror").ux
    /\ (eng.edge = "mirror" /\ eng.H >= 2 /\ eng.y = -1) =>
         /\ eng.re.y = resolveEdge(eng.W, eng.H, eng.x, 1, "mirror").y
         /\ eng.ut.vy = edgeResolve(eng.x, 1, eng.W, eng.H, "mirror").vy
    /\ (eng.edge = "mirror" /\ eng.H >= 2 /\ eng.y = eng.H) =>
         /\ eng.re.y = resolveEdge(eng.W, eng.H, eng.x, eng.H - 2, "mirror").y
         /\ eng.ut.vy = edgeResolve(eng.x, eng.H - 2, eng.W, eng.H, "mirror").vy
\* mirror mode resolved -1 on a dimension of at least 3, to 1
C8_Witness ==
  /\ eng.op = "resolve" /\ eng.edge = "mirror"
  /\ eng.W >= 3 /\ eng.x = -1
  /\ eng.re.x = 1 /\ eng.ut.ux = 1

\* C9: in transparent edge mode a pixel is (0,0,0,0), without sampling, if
\* its mapped coordinate lies outside [0,W-1]x[0,H-1], and it is sampled
\* (not forced transparent) if the coordinate lies inside, W-1 and H-1
\* included.
C9_TransparentEdge ==
  (eng.op = "sample" /\ eng.edge = "transparent"
     /\ IsFinite(eng.u) /\ IsFinite(eng.v)) =>
    LET inside == /\ eng.u.n >= 0 /\ eng.u.n <= (eng.W - 1) * Den
                  /\ eng.v.n >= 0 /\ eng.v.n <= (eng.H - 1) * Den
    IN IF inside THEN ~eng.forced
       ELSE eng.forced /\ eng.out = _ZERO

\* C10: an unrecognized edge-mode value is treated as clamp: the sampled
\* result equals the result obtained with edge mode clamp.
C10_UnknownIsClamp ==
  (eng.op = "sample" /\ eng.edge \notin KnownEdges) =>
    eng.out = sampleBilinear(EngSrc, eng.W, eng.H, eng.u, eng.v, "clamp")

\* C11: the edge mode that governs a render pass is the edgeMode value of
\* the active filter's parameter record: the pass resolves out-of-range
\* coordinates with the mode that record holds (the default of the schema
\* or what setParam stored).
C11_EdgeFromParams ==
  lastPass.valid => lastPass.edge = lastPass.paramEdge

\* Math.round(n * scale) for a scale in 1/ScaleDen
RoundScaled(n, scale) == (2 * n * scale + ScaleDen) \div (2 * ScaleDen)

\* C13: after a render pass the destination buffer is
\* round(srcW x viewScale) wide and round(srcH x viewScale) high.
C13_DestDims ==
  lastPass.valid =>
    /\ lastPass.w = RoundScaled(lastPass.srcW, lastPass.scale)
    /\ lastPass.h = RoundScaled(lastPass.srcH, lastPass.scale)

\* scales a caller can hand to setScale: zero, negative, tiny, huge, NaN
\* and the infinities
ScaleRequests ==
  {Fin(0), Fin(0 - 3 * ScaleDen), Fin(1), Fin(1000 * ScaleDen),
   NaN, PosInf, NegInf}

\* C14: the view scale is always within [0.05, 8]: after boot and after
\* every zoom-in, zoom-out, zoom-100%, fit, load and commit, and whatever
\* scale setScale is asked for (zero, negative, NaN included).
C14_ScaleClamped ==
  /\ viewScale \in MinScale .. MaxScale
  /\ \A req \in ScaleRequests : setScale(req) \in MinScale .. MaxScale
\* a zoom-in that the clamp held at 8, and a zoom-out it held at 0.05
C14_Witness ==
  \/ uiOp.op = "zoomIn" /\ viewScale = MaxScale
  \/ uiOp.op = "zoomOut" /\ viewScale = MinScale

\* C16: loading a preset never silently applies its parameter record to
\* the wrong filter: either the params are stored under the filter the
\* file was written for (the load switching to it), or the load is
\* rejected and no parameter record changes.
C16_PresetFilterMatch ==
  uiOp.op = "preset" =>
    \/ uiOp.accepted /\ uiOp.storedUnder = uiOp.file.filter
    \/ ~uiOp.accepted /\ uiOp.changed = {}

\* C17: parameter records are fully populated: state.params holds, for
\* every registered filter, a record with every key of the filter's
\* schema, and the keys a loaded preset omits hold the schema default.
C17_FullyPopulated ==
  /\ \A f \in FilterIds : SchemaKeys(f) \subseteq DOMAIN params[f]
  /\ (uiOp.op = "preset" /\ uiOp.accepted) =>
       \A k \in SchemaKeys(uiOp.storedUnder) \ DOMAIN uiOp.file.params :
         params[uiOp.storedUnder][k] = defaultParamsFor(uiOp.storedUnder)[k]
\* a preset that carries one key of pinch's five was loaded
C17_Witness ==
  /\ uiOp.op = "preset" /\ uiOp.accepted
  /\ uiOp.storedUnder = "pinch"
  /\ DOMAIN uiOp.file.params = {"amount"}
  /\ params["pinch"].amount = -20
  /\ params["pinch"].radius = 100

\* C12: for every destination pixel the engine invokes the active filter's
\* map as map(x, y, W, H, p), with W and H the source dimensions and p the
\* parameter record extended with cx, cy and radiusPx, and the filter's
\* own result (not the identity fallback) determines the coordinate.
C12_MapInvocation ==
  eng.op = "invoke" =>
    /\ eng.args = [W |-> "W", H |-> "H", p |-> "params+geometry"]
    /\ ~eng.fellBack
    /\ eng.m = map(eng.fid, eng.x, eng.y, eng.W, eng.H,
                   WithGeometry(eng.p, eng.W, eng.H))

\* C15: without a filter (or with a filter that has no map/warp) the pass
\* does not fail and every destination pixel (x,y) equals source pixel
\* (x,y).  The edge mode is the one the application runs with (unset).
C15_NoFilterIsIdentity ==
  (eng.op = "pass" /\ ~eng.f.has /\ eng.edgeMode = "") =>
    /\ eng.res.published
    /\ \A i \in 0 .. (eng.W * eng.H - 1) : eng.res.dPix[i] = EngSrc[i]

\* C18: for clamp, wrap and mirror, every integer coordinate and every
\* dimension >= 1, both resolvers return a coordinate in [0, dimension-1]
\* (so wrap is never negative), and mirror has period 2 x (dimension-1).
C18_ResolvedInRange ==
  (eng.op = "resolve" /\ eng.edge \in {"clamp", "wrap", "mirror"}) =>
    /\ eng.re.x \in 0 .. (eng.W - 1)
    /\ eng.re.y \in 0 .. (eng.H - 1)
    /\ eng.ut.ux \in 0 .. (eng.W - 1)
    /\ eng.ut.vy \in 0 .. (eng.H - 1)
    /\ eng.edge = "mirror" =>
         LET px == eng.x + 2 * (eng.W - 1)
             py == eng.y + 2 * (eng.H - 1)
         IN /\ resolveEdge(eng.W, eng.H, px, py, "mirror").x = eng.re.x
            /\ resolveEdge(eng.W, eng.H, px, py, "mirror").y = eng.re.y
            /\ edgeResolve(px, py, eng.W, eng.H, "mirror").ux = eng.ut.ux
            /\ edgeResolve(px, py, eng.W, eng.H, "mirror").vy = eng.ut.vy

\* C19 (as stated): for every value of the iterations parameter and every
\* pixel the solver loop of the angular filter runs at least 1 and at most
\* 20 iterations.
C19_Original ==
  eng.op = "angular" => eng.iters \in 1 .. 20

\* C19 (amended): the loop runs at most 20 iterations for every value of
\* the iterations parameter and every pixel, and at least 1 for every
\* pixel but the one at the centre (cx, cy), where map returns the
\* transparent sentinel before the loop and no iteration runs.
C19_IterationCap ==
  eng.op = "angular" =>
    /\ eng.iters <= 20
    /\ ~eng.singular => eng.iters >= 1
    /\ eng.singular => eng.iters = 0
\* an iterations value above the cap ran exactly 20 times
C19_Witness ==
  /\ eng.op = "angular" /\ ~eng.singular
  /\ eng.iterations = Fin(25 * Den)
  /\ eng.breakAt = 0
  /\ eng.iters = 20

\* C20: pinch, twirl and zigzag are the identity outside their radius of
\* effect: for every radius in [0,100] (radius 0 included) and every pixel
\* whose distance from (cx,cy) is >= radiusPx, map returns { u: x, v: y }.
C20_IdentityOutsideRadius ==
  (eng.op = "map" /\ eng.r2 >= eng.p.radiusPx * eng.p.radiusPx) =>
    ~eng.ret.moved

\* C21: within one pass the bytes written for a destination pixel do not
\* depend on the pixels processed before it: the loop, which hands the
\* scratch buffers _px, _lr and _tmpUV from pixel to pixel, writes for
\* every pixel what that pixel yields when processed on its own, whatever
\* the buffers held when the pass began, and that is the value determined
\* by source, filter, edge mode and (x,y).
C21_PixelIndependent ==
  eng.op = "scratch" =>
    \A i \in 0 .. (eng.W * eng.H - 1) :
      LET alone == pixelInto(ScratchFresh, EngSrc, eng.W, eng.H, eng.f,
                             i % eng.W, i \div eng.W, PassEdge).out
      IN /\ eng.loop[i + 1] = alone
         /\ alone = cpuWarp(EngSrc, eng.W, eng.H, eng.f,
                            eng.edgeMode).dPix[i]
\* a pass of several pixels that starts from used buffers, takes the
\* _tmpReuse fallback at one pixel and writes different pixels
C21_Witness ==
  /\ eng.op = "scratch"
  /\ eng.start = ScratchLeft
  /\ eng.W * eng.H >= 4
  /\ eng.f.has /\ eng.f.special = "throw" /\ SpecialIdx >= 1
  /\ eng.loop[SpecialIdx + 1] # eng.loop[SpecialIdx]
  /\ eng.loop[SpecialIdx + 1] # _ZERO

\* C22: commits do not overlap and the guard does not stay set: a commit
\* click that finds a commit in progress leaves state.image,
\* state.sourceVersion and the running commit alone; whenever a commit
\* finishes, with a new image or with a toBlob or image load error, the
\* guard is released; and a click that finds the guard released and an
\* image loaded starts a commit.
C22_CommitGuard ==
  [][ /\ (CommitClick /\ committing) =>
           /\ image' = image
           /\ sourceVersion' = sourceVersion
           /\ commitPc' = commitPc
           /\ commitSnap' = commitSnap
           /\ committing'
      /\ (commitPc # "idle" /\ commitPc' = "idle") => ~committing'
      /\ committing' <=> (commitPc' # "idle")
      /\ (CommitClick /\ ~committing /\ image # NoImage) =>
           (committing' /\ commitPc' = "blob") ]_vars
\* a commit failed, the next click started another commit, and a further
\* click found that one in progress
C22_Witness ==
  /\ committing
  /\ commitLog.prev = "failed"
  /\ commitLog.ignored

\* C23: a commit that completed (state.image swapped, the visible canvas
\* cleared) is eventually followed by a render pass, so the visible canvas
\* does not stay cleared.
C23_RerenderAfterCommit ==
  (commitLog.prev = "ok" /\ view.shows = 0) ~> (view.shows # 0)

\* C30: the selected filter is consistent: before and after every step
\* (boot, filter change, preset load, reset to defaults, setParam)
\* state.currentFilter is an entry of the registry whose id is
\* state.filterId, and a preset load that is refused (unknown filter or
\* invalid file) leaves filterId, currentFilter and every parameter
\* record as they were.
C30_FilterConsistent ==
  [][ /\ currentFilter \in FilterIds /\ currentFilter = filterId
      /\ currentFilter' \in FilterIds /\ currentFilter' = filterId'
      /\ (uiOp' # uiOp /\ uiOp'.op = "preset" /\ ~uiOp'.accepted) =>
           /\ filterId' = filterId
           /\ currentFilter' = currentFilter
           /\ params' = params ]_vars
\* a preset naming a filter the registry lacks was refused while another
\* filter than the first was selected and its parameters were not the
\* defaults
C30_Witness ==
  /\ uiOp.op = "preset" /\ ~uiOp.accepted
  /\ uiOp.file.filter \notin FilterIds \cup {Absent}
  /\ filterId # FirstFilter
  /\ params[filterId] # defaultParamsFor(filterId)

C25_StaleIgnored ==
  [][ /\ (msgLog' # msgLog /\ msgLog'.stale) =>
           /\ UNCHANGED msgRest
           /\ UNCHANGED << viewScale, nextHandle, requests, lastPass >>
      /\ \A i \in 1 .. (Len(acks') - 1) : acks'[i].seq < acks'[i + 1].seq
    ]_vars
\* two images were acknowledged and a stale one was dropped
C25_Witness ==
  /\ Len(acks) >= 2
  /\ msgLog.stale
  /\ lastSeqApplied >= 1

\* C26: a frame is acknowledged only after it was applied: when
\* LAB_IMAGE_APPLIED with seq s is posted, the image of the message with
\* seq s has been decoded and installed as the source, and a render pass
\* that sampled it has run.
C26_AckAfterRender ==
  \A i \in 1 .. Len(acks) : acks[i].rendered

\* C27: the newest image wins: once every decode in flight has finished,
\* the image installed in state is the one of the LAB_IMAGE accepted last
\* (its buffer being decodable), and the seq acknowledged last is that
\* message's seq, acknowledged for the image that is installed.
C27_NewestWins ==
  (loads = {} /\ msgLog.newest # NoOp /\ msgLog.newest.ok) =>
    /\ image.id = msgLog.newest.img
    /\ acks # << >>
    /\ acks[Len(acks)].seq = msgLog.newest.seq
    /\ acks[Len(acks)].img = image.id

\* C28: every accepted image is eventually applied: after a LAB_IMAGE from
\* the plugin's origin, with the page's session id and a decodable buffer,
\* with or without a numeric seq, the image is eventually installed and
\* acknowledged with its seq, unless another message arrives first.
C28_EventuallyApplied ==
  msgLog.qual ~>
    \/ ~msgLog.qual
    \/ /\ acks # << >>
       /\ acks[Len(acks)].seq = msgLog.seq
       /\ acks[Len(acks)].img = image.id

\* C29: only messages of the page's own session from the plugin's origin
\* change state: a message whose origin is not https://pt-home.github.io
\* or whose sessionId differs from the page's sessionId leaves the state
\* unchanged (no reset, no decode started, no image replaced) and no
\* acknowledgement is posted for it.
C29_OwnSessionOnly ==
  [][ \A m \in Msgs :
        (Receive(m) /\ ~(TrustedOrigin(m) /\ m.sid = sessionId)) =>
          /\ UNCHANGED msgRest
          /\ UNCHANGED << viewScale, nextHandle, requests, lastPass >>
    ]_vars

====
